---- MODULE Spec2Model ----
(***************************************************************************)
(* Model of src/main.py: the KivyVirtualJoystick application.              *)
(* One asyncio event loop runs run_wrapper (the GUI), four stream_camera   *)
(* tasks and one pose_generator task.  A task is only ever suspended at an *)
(* await, so every action below is the code between two awaits.            *)
(*                                                                         *)
(* Floats are sign/magnitude records [s, m] so that -0.0 exists.  Joystick *)
(* axes and the configured maxima are in halves (m = 2 is 1.0), a product  *)
(* of the two is in quarters (m = 4 is 1.0).                               *)
(***************************************************************************)
EXTENDS Integers, Sequences, FiniteSets

\* ---------------------------------------------------------------- bounds
MaxDelivered == 2
MaxConfigs == 2
\* decimation factors tried: 1..MaxEveryN
MaxEveryN == 2
\* messages published on the five topics together
MaxPublished == 4

\* ------------------------------------------------------------- constants
STREAM_NAMES == <<"rgb", "disparity", "left", "right">>

Views == {STREAM_NAMES[i] : i \in 1..Len(STREAM_NAMES)}

Pose == "pose"

Tasks == Views \cup {Pose}

None == "None"

\* a service config is modelled by its name
ServiceNames == {"oak0", "canbus"}

\* the list app_func builds: the camera tasks in STREAM_NAMES order, then
\* the pose_generator task
async_tasks == STREAM_NAMES \o <<Pose>>

TaskIndex(t) == CHOOSE i \in 1..Len(async_tasks) : async_tasks[i] = t

camera_name == "oak0"

ConfigLists == UNION {[1..n -> ServiceNames] : n \in 0..MaxConfigs}

Float(s, m) == [s |-> s, m |-> m]

Val(f) == f.s * f.m

Neg(f) == Float(-f.s, f.m)

Mul(a, b) == Float(a.s * b.s, a.m * b.m)

max_speed == Float(1, 2)

max_angular_rate == Float(1, 2)

\* joystick positions read by the loop: the centre, the corners (1, -1) and
\* (-1, 1), full forward, and a position outside the unit square
JoystickPoses == {[x |-> Float(1, 0), y |-> Float(1, 0)],
                  [x |-> Float(1, 2), y |-> Float(-1, 2)],
                  [x |-> Float(-1, 2), y |-> Float(1, 2)],
                  [x |-> Float(1, 0), y |-> Float(1, 2)],
                  [x |-> Float(1, 3), y |-> Float(-1, 3)]}

Twist2d == [linear_velocity_x |-> Float(1, 0), angular_velocity |-> Float(1, 0)]

\* camera payloads: decodable, image_data the decoder rejects, bytes that
\* payload_to_protobuf rejects
CameraPayloads == {"ok", "corrupt", "malformed"}

\* /state payloads: the control_state code carried, or bytes that
\* payload_to_protobuf rejects
StatePayloads == {[parses |-> TRUE, control_state |-> 2],
                  [parses |-> TRUE, control_state |-> 5],
                  [parses |-> TRUE, control_state |-> 9],
                  [parses |-> FALSE, control_state |-> 0]}

Terminated == {"cancelled", "raised"}

VARIABLES oak_service_config, canbus_service_config,
          mainPc, wrapperPc, root, view_name, taskPc, cancelReq, subs,
          consumed, decodeCalls, logged, texture, pending,
          sample, twist, sent, nSent, amiga_state, amiga_speed, amiga_rate,
          stream_every_n, published, event

vars == <<oak_service_config, canbus_service_config,
          mainPc, wrapperPc, root, view_name, taskPc, cancelReq, subs,
          consumed, decodeCalls, logged, texture, pending,
          sample, twist, sent, nSent, amiga_state, amiga_speed, amiga_rate,
          stream_every_n, published, event>>

cfgVars == <<oak_service_config, canbus_service_config>>

camVars == <<decodeCalls, logged, texture>>

poseVars == <<sample, twist, sent, nSent, amiga_state, amiga_speed, amiga_rate>>

\* the decimation factor handed to every subscription, and per topic the
\* number of messages published since the subscription opened and the
\* sequence number of the message the task's loop took last
subVars == <<stream_every_n, published, event>>

\* ------------------------------------------------------- pure functions
RECURSIVE FindFrom(_, _, _)
FindFrom(configs, name, i) ==
    IF i > Len(configs) THEN None
    ELSE IF configs[i] = name THEN configs[i]
    ELSE FindFrom(configs, name, i + 1)

find_config_by_name(service_configs, name) == FindFrom(service_configs, name, 1)

Digit(d) == CASE d = 0 -> "0" [] d = 1 -> "1" [] d = 2 -> "2" [] d = 3 -> "3"
              [] d = 4 -> "4" [] d = 5 -> "5" [] d = 6 -> "6" [] d = 7 -> "7"
              [] d = 8 -> "8" [] d = 9 -> "9"

Format4fWhole(f) ==
    (IF f.s < 0 THEN <<"-">> ELSE <<>>) \o <<Digit(f.m \div 4), ".", "0", "0", "0", "0">>

\* "{:.4f}".format(f) for f in quarters
Format4f(f) ==
    LET frac == (f.m % 4) * 2500
    IN  (IF f.s < 0 THEN <<"-">> ELSE <<>>) \o
        <<Digit(f.m \div 4), ".", Digit(frac \div 1000), Digit((frac \div 100) % 10),
          Digit((frac \div 10) % 10), Digit(frac % 10)>>

ValidControlState(c) == c \in {0, 1, 2, 3, 4, 5, 6}

\* str(AmigaControlState(c)).split(".")[1]
StateString(c) ==
    CASE c = 0 -> "STATE_BOOT" [] c = 1 -> "STATE_MANUAL_READY"
      [] c = 2 -> "STATE_MANUAL_ACTIVE" [] c = 3 -> "STATE_CC_ACTIVE"
      [] c = 4 -> "STATE_AUTO_READY" [] c = 5 -> "STATE_AUTO_ACTIVE"
      [] c = 6 -> "STATE_ESTOPPED"

\* the messages the subscriptions have delivered so far; those of /state
\* wait in the stream until the loop comes back for them
Delivered == consumed["rgb"] + consumed["disparity"] + consumed["left"]
             + consumed["right"] + consumed[Pose] + Len(pending)

\* the event loop runs callbacks in the order they were queued.  The done
\* callback of a task that ended with an exception is queued by that task's
\* last step, so the gather sees it before anything new is handled.
LoopRunning == mainPc = "running" /\ \A t \in Tasks : taskPc[t] # "raised"

Started(t) == taskPc[t] # "created"

\* a task's first step comes after the first steps of the tasks created
\* before it
InTurn(t) == Started(t) \/ \A u \in Tasks : TaskIndex(u) < TaskIndex(t) => Started(u)

Runnable(t) == LoopRunning /\ t \notin cancelReq /\ InTurn(t)

\* "--stream-every-n", type=int, default=1
DefaultEveryN == 1

\* the event service forwards the k-th message published on a topic to a
\* subscription of factor n when k is a multiple of n
Decimated(n, k) == k % n = 0

\* the messages published so far on the five topics
Published == published["rgb"] + published["disparity"] + published["left"]
             + published["right"] + published[Pose]

MayPublish(t) == Published < MaxPublished /\ Delivered < MaxDelivered

\* ------------------------------------------------------------------ Init
Init ==
    /\ oak_service_config = None
    /\ canbus_service_config = None
    /\ mainPc = "start"
    /\ wrapperPc = "none"
    /\ root = FALSE
    /\ view_name = "rgb"
    /\ taskPc = [t \in Tasks |-> "none"]
    /\ cancelReq = {}
    /\ subs = {}
    /\ consumed = [t \in Tasks |-> 0]
    /\ decodeCalls = [v \in Views |-> 0]
    /\ logged = [v \in Views |-> 0]
    /\ texture = [v \in Views |-> 0]
    /\ pending = <<>>
    /\ sample = [x |-> Float(1, 0), y |-> Float(1, 0)]
    /\ twist = Twist2d
    /\ sent = Twist2d
    /\ nSent = 0
    /\ amiga_state = "???"
    /\ amiga_speed = <<"?", "?", "?">>
    /\ amiga_rate = <<"?", "?", "?">>
    /\ stream_every_n = DefaultEveryN
    /\ published = [t \in Tasks |-> 0]
    /\ event = [t \in Tasks |-> 0]

\* ------------------------------------------------- __main__ and app_func
\* __main__ up to the first await of app_func: look the two services up,
\* refuse to start without the camera service, build the app, create the
\* four camera tasks, the pose_generator task and run_wrapper.
Main(service_config_list, every_n) ==
    /\ mainPc = "start"
    /\ LET oak == find_config_by_name(service_config_list, camera_name)
           canbus == find_config_by_name(service_config_list, "canbus")
       IN  /\ oak_service_config' = oak
           /\ canbus_service_config' = canbus
           /\ IF oak = None
              THEN /\ mainPc' = "config_error"
                   /\ UNCHANGED <<wrapperPc, taskPc>>
              ELSE /\ mainPc' = "running"
                   /\ wrapperPc' = "created"
                   /\ taskPc' = [t \in Tasks |-> "created"]
    /\ view_name' = "rgb"
    /\ stream_every_n' = every_n
    /\ UNCHANGED <<published, event>>
    /\ UNCHANGED <<root, cancelReq, subs, consumed, pending>>
    /\ UNCHANGED camVars
    /\ UNCHANGED poseVars

\* run_wrapper's first step: async_run builds the root widget and runs the
\* GUI.  The gather creates run_wrapper's task after the tasks of async_tasks.
Build ==
    /\ LoopRunning
    /\ wrapperPc = "created"
    /\ \A t \in Tasks : Started(t)
    /\ wrapperPc' = "running"
    /\ root' = TRUE
    /\ UNCHANGED <<mainPc, view_name, taskPc, cancelReq, subs, consumed, pending>>
    /\ UNCHANGED cfgVars
    /\ UNCHANGED camVars
    /\ UNCHANGED poseVars
    /\ UNCHANGED subVars

\* the names the tabs of the GUI pass to update_view
ViewChoices == Views

update_view_title(v) ==
    /\ LoopRunning
    /\ wrapperPc = "running"
    /\ view_name' = "RGB"
    /\ UNCHANGED <<mainPc, wrapperPc, root, taskPc, cancelReq, subs, consumed, pending>>
    /\ UNCHANGED cfgVars
    /\ UNCHANGED camVars
    /\ UNCHANGED poseVars
    /\ UNCHANGED subVars

update_view(v) ==
    /\ LoopRunning
    /\ wrapperPc = "running"
    /\ view_name' = v
    /\ UNCHANGED <<mainPc, wrapperPc, root, taskPc, cancelReq, subs, consumed, pending>>
    /\ UNCHANGED cfgVars
    /\ UNCHANGED camVars
    /\ UNCHANGED poseVars
    /\ UNCHANGED subVars

CancelCamerasOnly == {t \in Views : taskPc[t] \notin Terminated}

\* the tasks run_wrapper cancels once async_run has returned
CancelTargets == {t \in Tasks : taskPc[t] \notin Terminated}

\* async_run returns (the GUI stopped): run_wrapper calls task.cancel() on
\* every task of async_tasks; a cancel of a finished task does nothing
Shutdown ==
    /\ LoopRunning
    /\ wrapperPc = "running"
    /\ wrapperPc' = "done"
    /\ cancelReq' = CancelTargets
    /\ UNCHANGED <<mainPc, root, view_name, taskPc, subs, consumed, pending>>
    /\ UNCHANGED cfgVars
    /\ UNCHANGED camVars
    /\ UNCHANGED poseVars
    /\ UNCHANGED subVars

\* the next step of a task whose cancel() was called: CancelledError is
\* thrown at its await, the frame unwinds and its subscription goes with it
DeliverCancel(t) ==
    /\ mainPc = "running"
    /\ t \in cancelReq
    /\ \A u \in cancelReq : TaskIndex(t) <= TaskIndex(u)
    /\ taskPc' = [taskPc EXCEPT ![t] = "cancelled"]
    /\ cancelReq' = cancelReq \ {t}
    /\ subs' = subs \ {t}
    /\ pending' = IF t = Pose THEN <<>> ELSE pending
    /\ UNCHANGED <<mainPc, wrapperPc, root, view_name, consumed>>
    /\ UNCHANGED cfgVars
    /\ UNCHANGED camVars
    /\ UNCHANGED poseVars
    /\ UNCHANGED subVars

\* asyncio.gather without return_exceptions: the first child that ends with
\* an exception ends the gather with it; the siblings are left as they are.
\* __main__ catches only CancelledError, so the exception leaves the program.
GatherRaised ==
    /\ mainPc = "running"
    /\ \E t \in Tasks : taskPc[t] = "raised"
    /\ mainPc' = "failed"
    /\ UNCHANGED <<wrapperPc, root, view_name, taskPc, cancelReq, subs, consumed, pending>>
    /\ UNCHANGED cfgVars
    /\ UNCHANGED camVars
    /\ UNCHANGED poseVars
    /\ UNCHANGED subVars

\* a cancelled child ends the gather with CancelledError, which __main__
\* swallows before loop.close().  The wake-ups of the cancelled tasks were
\* queued by run_wrapper before the gather's callback, so they run first.
GatherCancelled ==
    /\ mainPc = "running"
    /\ wrapperPc = "done"
    /\ cancelReq = {}
    /\ \E t \in Tasks : taskPc[t] = "cancelled"
    /\ ~ \E t \in Tasks : taskPc[t] = "raised"
    /\ mainPc' = "closed"
    /\ UNCHANGED <<wrapperPc, root, view_name, taskPc, cancelReq, subs, consumed, pending>>
    /\ UNCHANGED cfgVars
    /\ UNCHANGED camVars
    /\ UNCHANGED poseVars
    /\ UNCHANGED subVars

\* ------------------------------------------------------- stream_camera
RootNeverNone == FALSE

\* "while self.root is None": the test the tasks make before any real work
RootIsNone == root = FALSE

IsActiveAlways(v) == TRUE

\* "if view_name == self.view_name"
IsActiveView(v) == v = view_name

AfterDecodeErrorRaise == "raised"

\* "except Exception: logger.exception(...); continue": the task goes on to
\* the next message
AfterDecodeError == "recv"

DisplaySlotFirst(v) == STREAM_NAMES[1]

\* "self.root.ids[view_name].texture = texture"
DisplaySlot(v) == v

\* the task's first step and every wake-up from sleep(0.01): poll again while
\* there is no root widget, otherwise open the subscription on /<view_name>
CameraWait(v) ==
    /\ Runnable(v)
    /\ taskPc[v] \in {"created", "poll"}
    /\ IF RootIsNone
       THEN /\ taskPc' = [taskPc EXCEPT ![v] = "poll"]
            /\ UNCHANGED subs
       ELSE /\ taskPc' = [taskPc EXCEPT ![v] = "recv"]
            /\ subs' = subs \cup {v}
    /\ UNCHANGED <<mainPc, wrapperPc, root, view_name, cancelReq, consumed, pending>>
    /\ UNCHANGED cfgVars
    /\ UNCHANGED camVars
    /\ UNCHANGED poseVars
    /\ UNCHANGED subVars

\* one delivered message: the body of the async for, which has no await
CameraMessage(v, payload) ==
    /\ Runnable(v)
    /\ taskPc[v] = "recv"
    /\ MayPublish(v)
    /\ Decimated(stream_every_n, published[v] + 1)
    /\ published' = [published EXCEPT ![v] = @ + 1]
    /\ event' = [event EXCEPT ![v] = published'[v]]
    /\ consumed' = [consumed EXCEPT ![v] = @ + 1]
    /\ IF IsActiveView(v)
       THEN IF payload = "malformed"
            THEN \* payload_to_protobuf raises outside the try
                 /\ taskPc' = [taskPc EXCEPT ![v] = "raised"]
                 /\ subs' = subs \ {v}
                 /\ UNCHANGED camVars
            ELSE /\ decodeCalls' = [decodeCalls EXCEPT ![v] = @ + 1]
                 /\ IF payload = "corrupt"
                    THEN /\ logged' = [logged EXCEPT ![v] = @ + 1]
                         /\ taskPc' = [taskPc EXCEPT ![v] = AfterDecodeError]
                         /\ subs' = IF AfterDecodeError \in Terminated
                                    THEN subs \ {v} ELSE subs
                         /\ UNCHANGED texture
                    ELSE /\ texture' = [texture EXCEPT ![DisplaySlot(v)] = consumed'[v]]
                         /\ UNCHANGED <<taskPc, subs, logged>>
       ELSE UNCHANGED <<taskPc, subs, decodeCalls, logged, texture>>
    /\ UNCHANGED <<mainPc, wrapperPc, root, view_name, cancelReq, pending>>
    /\ UNCHANGED stream_every_n
    /\ UNCHANGED cfgVars
    /\ UNCHANGED poseVars

\* the subscription raises (connection lost): nothing in the task catches it
SubscriptionError(t) ==
    /\ Runnable(t)
    /\ taskPc[t] = "recv"
    /\ taskPc' = [taskPc EXCEPT ![t] = "raised"]
    /\ subs' = subs \ {t}
    /\ pending' = IF t = Pose THEN <<>> ELSE pending
    /\ UNCHANGED <<mainPc, wrapperPc, root, view_name, cancelReq, consumed>>
    /\ UNCHANGED cfgVars
    /\ UNCHANGED camVars
    /\ UNCHANGED poseVars
    /\ UNCHANGED subVars

\* ------------------------------------------------------- pose_generator
\* the command of one iteration, from the joystick position
TwistForSwapped(speed, rate, pose) ==
    [linear_velocity_x |-> Mul(speed, pose.x),
     angular_velocity |-> Mul(rate, Neg(pose.y))]

\* twist.linear_velocity_x = max_speed * y; twist.angular_velocity =
\* max_angular_rate * -x
TwistFor(speed, rate, pose) ==
    [linear_velocity_x |-> Mul(speed, pose.y),
     angular_velocity |-> Mul(rate, Neg(pose.x))]

TwistOfAutoOnly(pose) ==
    IF amiga_state = "STATE_AUTO_ACTIVE"
    THEN TwistFor(max_speed, max_angular_rate, pose)
    ELSE Twist2d

TwistOf(pose) == TwistFor(max_speed, max_angular_rate, pose)

\* first step and wake-ups from sleep(0.01); with a root widget: Twist2d(),
\* the client of the canbus service, the subscription on /state
PoseWait ==
    /\ Runnable(Pose)
    /\ taskPc[Pose] \in {"created", "poll"}
    /\ IF RootIsNone
       THEN /\ taskPc' = [taskPc EXCEPT ![Pose] = "poll"]
            /\ UNCHANGED <<subs, twist>>
       ELSE IF canbus_service_config = None
            THEN \* EventClient(None) raises
                 /\ taskPc' = [taskPc EXCEPT ![Pose] = "raised"]
                 /\ twist' = Twist2d
                 /\ UNCHANGED subs
            ELSE /\ taskPc' = [taskPc EXCEPT ![Pose] = "recv"]
                 /\ twist' = Twist2d
                 /\ subs' = subs \cup {Pose}
    /\ UNCHANGED <<mainPc, wrapperPc, root, view_name, cancelReq, consumed, pending>>
    /\ UNCHANGED <<sample, sent, nSent, amiga_state, amiga_speed, amiga_rate>>
    /\ UNCHANGED cfgVars
    /\ UNCHANGED camVars
    /\ UNCHANGED subVars

\* the subscription delivers a /state message: it waits in the stream until
\* the loop asks for the next one
StateArrives(payload) ==
    /\ LoopRunning
    /\ Pose \in subs
    /\ Pose \notin cancelReq
    /\ MayPublish(Pose)
    /\ Decimated(stream_every_n, published[Pose] + 1)
    /\ published' = [published EXCEPT ![Pose] = @ + 1]
    /\ pending' = Append(pending, [event |-> published'[Pose],
                                   parses |-> payload.parses,
                                   control_state |-> payload.control_state])
    /\ UNCHANGED <<stream_every_n, event>>
    /\ UNCHANGED <<mainPc, wrapperPc, root, view_name, taskPc, cancelReq, subs, consumed>>
    /\ UNCHANGED cfgVars
    /\ UNCHANGED camVars
    /\ UNCHANGED poseVars

\* a message is published on the topic of a subscription of factor n > 1 and
\* the service does not forward it
NotForwarded(t) ==
    /\ LoopRunning
    /\ t \in subs
    /\ t \notin cancelReq
    /\ MayPublish(t)
    /\ ~Decimated(stream_every_n, published[t] + 1)
    /\ published' = [published EXCEPT ![t] = @ + 1]
    /\ UNCHANGED <<stream_every_n, event>>
    /\ UNCHANGED <<mainPc, wrapperPc, root, view_name, taskPc, cancelReq, subs, consumed, pending>>
    /\ UNCHANGED cfgVars
    /\ UNCHANGED camVars
    /\ UNCHANGED poseVars

NewestMessage(stream) == stream[Len(stream)]

\* "async for event, payload in ...subscribe(...)": the next message of the
\* stream
NextMessage(stream) == Head(stream)

\* one iteration on the next /state message, up to "await
\* client.request_reply"; pose is the joystick position it reads
PoseMessage(pose) ==
    /\ Runnable(Pose)
    /\ taskPc[Pose] = "recv"
    /\ pending # <<>>
    /\ consumed' = [consumed EXCEPT ![Pose] = @ + 1]
    /\ event' = [event EXCEPT ![Pose] = NextMessage(pending).event]
    /\ UNCHANGED <<stream_every_n, published>>
    /\ LET payload == NextMessage(pending)
       IN  IF payload.parses /\ ValidControlState(payload.control_state)
           THEN /\ sample' = pose
                /\ twist' = TwistOf(pose)
                /\ amiga_state' = StateString(payload.control_state)
                /\ amiga_speed' = Format4f(twist'.linear_velocity_x)
                /\ amiga_rate' = Format4f(twist'.angular_velocity)
                /\ sent' = twist'
                /\ nSent' = nSent + 1
                /\ taskPc' = [taskPc EXCEPT ![Pose] = "reply"]
                /\ pending' = Tail(pending)
                /\ UNCHANGED subs
           ELSE \* payload_to_protobuf or AmigaControlState(...) raises
                /\ taskPc' = [taskPc EXCEPT ![Pose] = "raised"]
                /\ subs' = subs \ {Pose}
                /\ pending' = <<>>
                /\ UNCHANGED poseVars
    /\ UNCHANGED <<mainPc, wrapperPc, root, view_name, cancelReq>>
    /\ UNCHANGED cfgVars
    /\ UNCHANGED camVars

\* what the loop does when request_reply raises: nothing catches it
OnPublishError == "raised"

AfterReplyNoSleep == "recv"

\* "await asyncio.sleep(period)" follows the reply
AfterReply == "sleep"

\* the reply of /twist arrives, or the request raises
PoseReply(ok) ==
    /\ Runnable(Pose)
    /\ taskPc[Pose] = "reply"
    /\ IF ok
       THEN /\ taskPc' = [taskPc EXCEPT ![Pose] = AfterReply]
            /\ UNCHANGED <<subs, pending>>
       ELSE /\ taskPc' = [taskPc EXCEPT ![Pose] = OnPublishError]
            /\ subs' = IF OnPublishError \in Terminated THEN subs \ {Pose} ELSE subs
            /\ pending' = IF OnPublishError \in Terminated THEN <<>> ELSE pending
    /\ UNCHANGED <<mainPc, wrapperPc, root, view_name, cancelReq, consumed>>
    /\ UNCHANGED cfgVars
    /\ UNCHANGED camVars
    /\ UNCHANGED poseVars
    /\ UNCHANGED subVars

\* sleep(period) is over: back to the async for, waiting for a /state message
PoseSleepDone ==
    /\ Runnable(Pose)
    /\ taskPc[Pose] = "sleep"
    /\ taskPc' = [taskPc EXCEPT ![Pose] = "recv"]
    /\ UNCHANGED <<mainPc, wrapperPc, root, view_name, cancelReq, subs, consumed, pending>>
    /\ UNCHANGED cfgVars
    /\ UNCHANGED camVars
    /\ UNCHANGED poseVars
    /\ UNCHANGED subVars

\* ------------------------------------------------------------------ Next
Next ==
    \/ \E service_config_list \in ConfigLists : Main(service_config_list, DefaultEveryN)
    \/ Build
    \/ \E v \in ViewChoices : update_view(v)
    \/ Shutdown
    \/ \E t \in Tasks : DeliverCancel(t)
    \/ GatherRaised
    \/ GatherCancelled
    \/ \E v \in Views : CameraWait(v)
    \/ \E v \in Views : \E payload \in CameraPayloads : CameraMessage(v, payload)
    \/ \E t \in Tasks : SubscriptionError(t)
    \/ PoseWait
    \/ \E payload \in StatePayloads : StateArrives(payload)
    \/ \E pose \in JoystickPoses : PoseMessage(pose)
    \/ \E ok \in BOOLEAN : PoseReply(ok)
    \/ PoseSleepDone

Spec == Init /\ [][Next]_vars

\* the same program started with any --stream-every-n of 1..MaxEveryN; the
\* joystick stays in one corner
SubscribeNext ==
    \/ \E service_config_list \in ConfigLists : \E every_n \in 1..MaxEveryN :
          Main(service_config_list, every_n)
    \/ Build
    \/ \E v \in ViewChoices : update_view(v)
    \/ Shutdown
    \/ \E t \in Tasks : DeliverCancel(t)
    \/ GatherRaised
    \/ GatherCancelled
    \/ \E v \in Views : CameraWait(v)
    \/ \E v \in Views : \E payload \in CameraPayloads : CameraMessage(v, payload)
    \/ \E t \in Tasks : NotForwarded(t)
    \/ \E t \in Tasks : SubscriptionError(t)
    \/ PoseWait
    \/ \E payload \in StatePayloads : StateArrives(payload)
    \/ \E pose \in {[x |-> Float(1, 2), y |-> Float(-1, 2)]} : PoseMessage(pose)
    \/ \E ok \in BOOLEAN : PoseReply(ok)
    \/ PoseSleepDone

SubscribeSpec == Init /\ [][SubscribeNext]_vars

\* the steps the event loop itself takes: task steps whose await is a timer
\* or a queued callback, and the reply (or error) of a request in flight.
\* Messages on a subscription, connection errors and what the user does with
\* the GUI are up to the world.
FairSpec ==
    /\ Spec
    /\ WF_vars(\E service_config_list \in ConfigLists : Main(service_config_list, DefaultEveryN))
    /\ WF_vars(Build)
    /\ WF_vars(\E v \in Views : CameraWait(v))
    /\ WF_vars(PoseWait)
    /\ WF_vars(\E ok \in BOOLEAN : PoseReply(ok))
    /\ WF_vars(PoseSleepDone)
    /\ WF_vars(\E t \in Tasks : DeliverCancel(t))
    /\ WF_vars(GatherRaised)
    /\ WF_vars(GatherCancelled)

\* ---------------------------------------------------------------- claims
Abs(n) == IF n < 0 THEN 0 - n ELSE n

\* an axis value in [-1, 1] (axes are in halves)
InUnitRange(a) == a.m <= 2

PoseStopped == taskPc[Pose] \in Terminated

\* C1: whenever a command has been sent for a joystick position with x and y
\* in [-1, 1], its linear_velocity_x is max_speed * y and its angular_velocity
\* is max_angular_rate * (-x), so neither exceeds its maximum in magnitude;
\* and with both maxima 0.5 the position (1.0, -1.0) gives (-0.5, -0.5).
C1_CommandFromJoystick ==
    /\ (nSent > 0 /\ InUnitRange(sample.x) /\ InUnitRange(sample.y)) =>
          /\ Val(sent.linear_velocity_x) = Val(max_speed) * Val(sample.y)
          /\ Val(sent.angular_velocity) = Val(max_angular_rate) * (0 - Val(sample.x))
          /\ Abs(Val(sent.linear_velocity_x)) <= Val(max_speed) * 2
          /\ Abs(Val(sent.angular_velocity)) <= Val(max_angular_rate) * 2
    /\ LET t == TwistFor(Float(1, 1), Float(1, 1), [x |-> Float(1, 2), y |-> Float(-1, 2)])
       IN  Val(t.linear_velocity_x) = -2 /\ Val(t.angular_velocity) = -2

\* a command was sent for the position (1.0, -1.0): (-1.0, -1.0) at maxima 1.0
C1_Witness ==
    /\ nSent > 0
    /\ sample = [x |-> Float(1, 2), y |-> Float(-1, 2)]
    /\ Val(sent.linear_velocity_x) = -4
    /\ Val(sent.angular_velocity) = -4

\* C2: once the control loop is waiting in its running state, it goes on to
\* send a command (or is stopped) whether or not a /state message arrives.
C2_PublishesEveryTick ==
    (taskPc[Pose] = "recv") ~> (taskPc[Pose] = "reply" \/ PoseStopped \/ mainPc # "running")

\* C3: a step taken while the reply of /twist is awaited never ends the
\* control loop with an exception: the loop stops only by cancellation.
C3_PublishFailureSurvived ==
    [][taskPc[Pose] = "reply" => taskPc'[Pose] # "raised"]_vars

\* C4: a step in which camera task v consumes a message calls the decoder
\* only if v is the active view; if it is not, the step touches neither the
\* decoder, the log nor any display slot and leaves the task subscribed; and
\* no other task's decoder is called in that step.
C4_DecodeOnlyActive ==
    [][\A v \in Views : consumed'[v] # consumed[v] =>
          /\ (decodeCalls'[v] # decodeCalls[v] \/ texture' # texture) => view_name = v
          /\ view_name # v =>
                /\ UNCHANGED <<decodeCalls, logged, texture>>
                /\ taskPc'[v] = "recv"
                /\ v \in subs'
          /\ \A u \in Views \ {v} : decodeCalls'[u] = decodeCalls[u]]_vars

\* a task that is not the active view has drained a message undecoded while
\* the active one has decoded
C4_Witness ==
    \E v, u \in Views :
        /\ v # view_name /\ consumed[v] > 0 /\ decodeCalls[v] = 0 /\ texture[v] = 0
        /\ taskPc[v] = "recv"
        /\ u = view_name /\ decodeCalls[u] > 0

\* C5: update_view(B) makes B the active view at once; in every step taken
\* while B is active (so in every step after a switch from A to B) nothing is
\* decoded, logged or displayed for a view other than B, and a frame decoded
\* in that step lands in B's slot; update_view with the active view changes
\* nothing.
C5_SwitchRoutesFrames ==
    [][/\ \A v \in Views : update_view(v) => view_name' = v
       /\ \A v \in Views : (update_view(v) /\ v = view_name) => UNCHANGED vars
       /\ \A a \in Views : a # view_name' =>
             /\ decodeCalls'[a] = decodeCalls[a]
             /\ logged'[a] = logged[a]
             /\ texture'[a] = texture[a]
       /\ (decodeCalls' # decodeCalls /\ logged' = logged) =>
             texture'[view_name] = consumed'[view_name]]_vars

\* after a switch away from rgb a frame of the new view is on display and a
\* message of rgb was drained undecoded
C5_Witness ==
    /\ view_name # "rgb"
    /\ texture[view_name] > 0
    /\ consumed["rgb"] > 0
    /\ decodeCalls["rgb"] = 0
    /\ texture["rgb"] = 0

\* C6: the step in which a decode failure is logged leaves the camera task
\* waiting for its next message, subscribed, the display untouched; and a
\* later message of the active view that decodes is displayed.
C6_DecodeFailureSkipsFrame ==
    [][\A v \in Views :
          /\ logged'[v] # logged[v] =>
                /\ taskPc'[v] = "recv"
                /\ v \in subs'
                /\ texture' = texture
          /\ (logged[v] > 0 /\ decodeCalls'[v] # decodeCalls[v] /\ logged'[v] = logged[v]) =>
                texture'[v] = consumed'[v]]_vars

\* frame 1 of a view failed to decode and frame 2 is on display
C6_Witness ==
    \E v \in Views : logged[v] = 1 /\ consumed[v] = 2 /\ texture[v] = 2

\* C7: while there is no root widget no task holds a subscription, has
\* consumed a message, decoded, displayed, sent a command or written the
\* telemetry; every task is created or in its readiness poll.
C7_NothingBeforeSurface ==
    (root = FALSE) =>
        /\ subs = {}
        /\ \A t \in Tasks : taskPc[t] \in {"none", "created", "poll"} /\ consumed[t] = 0
        /\ \A v \in Views : decodeCalls[v] = 0 /\ texture[v] = 0
        /\ nSent = 0
        /\ amiga_state = "???"
        /\ amiga_speed = <<"?", "?", "?">>
        /\ amiga_rate = <<"?", "?", "?">>

\* every task is in its readiness poll and there is no root widget yet
C7_Witness == root = FALSE /\ \A t \in Tasks : taskPc[t] = "poll"

\* C8: from the shutdown on, every task is ended or has its cancellation
\* pending, and when the supervisor has returned from the shutdown every task
\* is ended and no subscription is open.
C8_ShutdownCancelsAll ==
    /\ wrapperPc = "done" => \A t \in Tasks : taskPc[t] \in Terminated \/ t \in cancelReq
    /\ mainPc = "closed" =>
          /\ \A t \in Tasks : taskPc[t] \in Terminated
          /\ subs = {}
          /\ cancelReq = {}

\* the supervisor returned from a shutdown that found the control loop past
\* its first command
C8_Witness ==
    /\ mainPc = "closed"
    /\ nSent > 0
    /\ \A t \in Tasks : taskPc[t] = "cancelled"

\* C9: when the supervisor has propagated the failure of a task, no task is
\* left running.
C9_FailureCancelsSiblings ==
    mainPc = "failed" => \A t \in Tasks : taskPc[t] \in Terminated

\* C10: in a run whose configuration lacks the camera service or the canbus
\* service no task is ever created.
C10_MissingServiceNoTasks ==
    (oak_service_config = None \/ canbus_service_config = None) =>
        \A t \in Tasks : taskPc[t] = "none"

\* a /state message the loop can turn into a state name
Displayable(payload) == payload.parses /\ ValidControlState(payload.control_state)

\* C11: whenever the control loop completes a tick (takes the next /state
\* message and writes the telemetry), the displayed state is the state of the
\* most recently arrived /state message, however many arrived since the last
\* tick.
C11_TelemetryTracksLatest ==
    [][(consumed'[Pose] # consumed[Pose] /\ taskPc'[Pose] = "reply"
          /\ Displayable(pending[Len(pending)])) =>
       amiga_state' = StateString(pending[Len(pending)].control_state)]_vars

\* C12: every command sent is within the maxima, whatever the joystick
\* position was, also outside [-1, 1].
C12_CommandWithinMaxima ==
    nSent > 0 =>
        /\ Abs(Val(sent.linear_velocity_x)) <= Val(max_speed) * 2
        /\ Abs(Val(sent.angular_velocity)) <= Val(max_angular_rate) * 2

\* C13: the step in which a task takes a message never ends the task with an
\* exception, whatever the message holds.
C13_BadMessageSurvived ==
    [][\A t \in Tasks : consumed'[t] # consumed[t] => taskPc'[t] # "raised"]_vars

\* C14: the command sent in an iteration is max_speed * y and
\* max_angular_rate * (-x) of the joystick position read in that iteration,
\* for every position and whatever control states the /state messages
\* carried: nothing of the vehicle state enters it.
C14_CommandIgnoresControlState ==
    [][(nSent' # nSent) =>
          (/\ Val(sent'.linear_velocity_x) = Val(max_speed) * Val(sample'.y)
           /\ Val(sent'.angular_velocity) = Val(max_angular_rate) * (0 - Val(sample'.x)))]_vars

\* the full command for the corner (1, -1) was sent with the vehicle in
\* MANUAL_ACTIVE
C14_Witness ==
    /\ taskPc[Pose] = "reply"
    /\ amiga_state = "STATE_MANUAL_ACTIVE"
    /\ sample = [x |-> Float(1, 2), y |-> Float(-1, 2)]
    /\ Val(sent.linear_velocity_x) = -4
    /\ Val(sent.angular_velocity) = -4

C16_EveryNthInOrder ==
    /\ [](\A t \in Tasks : event[t] = consumed[t] * stream_every_n)
    /\ [](\A i \in 1..Len(pending) :
             pending[i].event = (consumed[Pose] + i) * stream_every_n)
    /\ [][\A t \in Tasks : (consumed'[t] # consumed[t]) =>
                              (consumed'[t] = consumed[t] + 1)]_vars

\* with N = 2 the control loop took message 2, and message 4 arrived while
\* it slept; it takes message 4 next
C16_Witness ==
    /\ stream_every_n = 2
    /\ consumed[Pose] = 2
    /\ event[Pose] = 4
    /\ nSent = 2

\* C17: a step that writes the display slot of view v is taken with v the
\* active view before and after it: the test and the write are one step.
C17_WriteOnlyWhileActive ==
    [][\A v \in Views : texture'[v] # texture[v] => (view_name = v /\ view_name' = v)]_vars

\* the view was switched away from rgb after a frame of rgb was displayed,
\* and a frame of the new view is on display: the slot of rgb kept its frame
C17_Witness ==
    /\ view_name # "rgb"
    /\ texture["rgb"] = 1
    /\ consumed["rgb"] = 1
    /\ texture[view_name] > 0

\* C18: no more commands have been sent than /state messages taken; a
\* command is sent only in a step that takes a message; a message is taken
\* only by the loop waiting at its async for, and from the await of the reply
\* the loop gets there only through the sleep.
C18_OneCommandPerMessage ==
    /\ [](nSent <= consumed[Pose])
    /\ [][(nSent' # nSent) =>
            (nSent' = nSent + 1 /\ consumed'[Pose] = consumed[Pose] + 1)]_vars
    /\ [][(consumed'[Pose] # consumed[Pose]) => taskPc[Pose] = "recv"]_vars
    /\ [][(taskPc[Pose] = "reply") =>
            taskPc'[Pose] \in {"reply", "sleep", "cancelled", "raised"}]_vars

\* two commands were sent, one for each of two messages
C18_Witness == nSent = 2 /\ consumed[Pose] = 2 /\ taskPc[Pose] = "reply"

\* a value of the model to four decimals, written out
Decimal4(f) ==
    (IF f.s < 0 THEN <<"-">> ELSE <<>>) \o
    (CASE f.m = 0 -> <<"0", ".", "0", "0", "0", "0">>
       [] f.m = 4 -> <<"1", ".", "0", "0", "0", "0">>
       [] f.m = 6 -> <<"1", ".", "5", "0", "0", "0">>)

\* the name of a control state, written out
ControlStateName(c) ==
    IF c = 2 THEN "STATE_MANUAL_ACTIVE" ELSE IF c = 5 THEN "STATE_AUTO_ACTIVE" ELSE "?"

\* C19: in the step that sends a command, amiga_speed and amiga_rate are the
\* command's linear_velocity_x and angular_velocity to four decimals and
\* amiga_state is the control state of the message taken in that step; they
\* stay so while the reply is awaited.
C19_TelemetryOfTheCommand ==
    /\ [](taskPc[Pose] = "reply" =>
            /\ amiga_speed = Decimal4(sent.linear_velocity_x)
            /\ amiga_rate = Decimal4(sent.angular_velocity))
    /\ [][(nSent' # nSent) =>
            (/\ amiga_speed' = Decimal4(sent'.linear_velocity_x)
             /\ amiga_rate' = Decimal4(sent'.angular_velocity)
             /\ amiga_state' = ControlStateName(pending[1].control_state))]_vars

\* the command (-1.5, -1.5) is in flight with "-1.5000" shown twice and the
\* state AUTO_ACTIVE
C19_Witness ==
    /\ taskPc[Pose] = "reply"
    /\ amiga_speed = <<"-", "1", ".", "5", "0", "0", "0">>
    /\ amiga_rate = <<"-", "1", ".", "5", "0", "0", "0">>
    /\ amiga_state = "STATE_AUTO_ACTIVE"

====
